---- MODULE Spec2Model ----
(***************************************************************************)
(* bmusic: the MIDI parser (bmusic/midi.py, Midi.__init__ and Note) and    *)
(* the hammer scheduler (bmusic/proc/mechanical.py, Scheduling.animate).   *)
(*                                                                         *)
(* Times are integers: msg.time is counted in whole seconds and fps in     *)
(* whole frames per second, so every frame number of the model is the      *)
(* exact value of the float the code computes.                             *)
(***************************************************************************)
EXTENDS Integers, Sequences, FiniteSets, TLC

\* ------------------------------------------------------------------ bounds

\* Longest event stream fed to Midi.__init__.
MaxMsgs == 4
\* Longest note sequence handed directly to the scheduler (SpecSched).
MaxNotes == 3
\* Largest number of animation keys (hammers) of a Scheduling procedure.
MaxActuators == 3

\* ------------------------------------------------------------------ inputs

\* Python's None, and a value that is not None.
None == <<>>
Some(x) == <<x>>
Val(s) == s[1]

\* The pitches of the event streams.
Pitches == {60, 62}
\* Velocities of a sounding note_on.
Velocities == {80, 100}
\* Time deltas (seconds) of an opening note_on, of a closing event and of a
\* non-note event.
OpenTimes == {0, 1}
CloseTimes == {4}
OtherTimes == {1}

\* Frames per second and the offset argument (None is the declared default).
FpsValues == {24}
Offsets == {None, Some(0), Some(12)}

Openers ==
    [type : {"note_on"}, note : Pitches, velocity : Velocities, time : OpenTimes]
\* (64 is the velocity mido gives a note_off; Midi.__init__ never reads it.)
Closers ==
    [type : {"note_off"}, note : Pitches, velocity : {64}, time : CloseTimes]
    \cup [type : {"note_on"}, note : Pitches, velocity : {0}, time : CloseTimes]
Others ==
    [type : {"control_change"}, note : {0}, velocity : {0}, time : OtherTimes]
Messages == Openers \cup Closers \cup Others

\* ------------------------------------------------------------------- state

VARIABLES
    pc,        \* where the program is
    msgs,      \* the messages Midi.__init__ has consumed so far (history)
    fps,       \* Midi.__init__ argument
    offset,    \* Midi.__init__ argument
    frame,     \* Midi.__init__ local
    started,   \* Midi.__init__ local
    starts,    \* Midi.__init__ local: pending start per pitch
    vels,      \* Midi.__init__ local: pending velocity per pitch
    notes,     \* Midi.notes
    animkeys,  \* Scheduling.animkeys: per hammer, the keyframes inserted so far
    dist_f,    \* Scheduling.dist_f
    no_overlap,\* Scheduling.no_overlap
    idle_time, \* Scheduling.animate local (frames)
    status,    \* Scheduling.animate local: per hammer <<note_ind, last_play_time>>
    buckets,   \* Scheduling.animate local "notes": per hammer, the notes assigned
    min_reward,\* Scheduling.animate local
    k,         \* position in self.midi of the note the scheduling loop is at
    midis,     \* Scheduling.animate local: the per-hammer Midi objects
    ai,        \* "Animate motion" loop: hammer index i
    aj         \* "Animate motion" loop: position of note in midis[i]

parserVars == <<msgs, fps, offset, frame, started, starts, vels>>
schedVars == <<animkeys, dist_f, no_overlap, idle_time, status, buckets,
               min_reward, k, midis, ai, aj>>
vars == <<pc, parserVars, notes, schedVars>>

\* --------------------------------------------------------------- midi.py

\* A note built with start and end exchanged.
Note_Exchanged(note, velocity, start, end, index) ==
    [note |-> note, velocity |-> velocity, start |-> end, end |-> start,
     index |-> index]

\* Note.__init__: the fields of a note (the back-reference to its Midi is the
\* sequence the record is stored in).
Note(note, velocity, start, end, index) ==
    [note |-> note, velocity |-> velocity, start |-> start, end |-> end,
     index |-> index]

\* msg.type.startswith("note_")
IsNoteMsg(msg) == msg.type \in {"note_on", "note_off"}

\* A velocity read from the message whatever its type.
MsgVel_AnyType(msg) == msg.velocity

\* vel = msg.velocity if msg.type == "note_on" else 0
MsgVel(msg) == IF msg.type = "note_on" THEN msg.velocity ELSE 0

\* A frame counter that forgets the frames before the message.
Advance_Absolute(f, st, msg, rate) == IF st THEN msg.time * rate ELSE f

\* A frame counter that also counts the deltas before the first note event.
Advance_FromZero(f, st, msg, rate) == f + msg.time * rate

\* frame after "if started: frame += msg.time * fps"
Advance(f, st, msg, rate) == IF st THEN f + msg.time * rate ELSE f

\* An index that is one too large.
NextIndex_OffByOne(ns) == Len(ns) + 1

\* len(self.notes), the index given to the note about to be appended.
NextIndex(ns) == Len(ns)

\* Note.next: None, or the note after n in the sequence ns that holds it.
NoteNext(ns, n) ==
    LET ind == n.index + 1
    IN  IF ind >= Len(ns) THEN None ELSE Some(ns[ind + 1])

\* Note.prev: None, or the note before n in the sequence ns that holds it.
NotePrev(ns, n) ==
    LET ind == n.index - 1
    IN  IF ind < 0 THEN None ELSE Some(ns[ind + 1])

\* No Scheduling procedure is running.
SchedIdle ==
    /\ animkeys = <<>>
    /\ dist_f = "none"
    /\ no_overlap = FALSE
    /\ idle_time = 0
    /\ status = <<>>
    /\ buckets = <<>>
    /\ min_reward = 0
    /\ k = 0
    /\ midis = <<>>
    /\ ai = 0
    /\ aj = 0

\* Midi.__init__, lines 76-82: the state before the first message.
ParserInit ==
    /\ pc = "parse"
    /\ msgs = <<>>
    /\ fps \in FpsValues
    /\ offset \in Offsets
    /\ frame = 0
    /\ started = FALSE
    /\ starts = [p \in Pitches |-> 0]
    /\ vels = [p \in Pitches |-> 0]
    /\ notes = <<>>
    /\ SchedIdle

\* One iteration of "for msg in midi" on a message that is not a note event.
ParseOther(msg) ==
    /\ pc = "parse"
    /\ Len(msgs) < MaxMsgs
    /\ ~IsNoteMsg(msg)
    /\ msgs' = Append(msgs, msg)
    /\ frame' = Advance(frame, started, msg, fps)
    /\ UNCHANGED <<pc, fps, offset, started, starts, vels, notes, schedVars>>

\* One iteration on a note_on with velocity > 0: the note is opened.
ParseOpen(msg) ==
    /\ pc = "parse"
    /\ Len(msgs) < MaxMsgs
    /\ IsNoteMsg(msg)
    /\ MsgVel(msg) # 0
    /\ msgs' = Append(msgs, msg)
    /\ frame' = Advance(frame, started, msg, fps)
    /\ started' = TRUE
    /\ starts' = [starts EXCEPT ![msg.note] = frame']
    /\ vels' = [vels EXCEPT ![msg.note] = MsgVel(msg)]
    /\ UNCHANGED <<pc, fps, offset, notes, schedVars>>

\* One iteration on a note_off, or a note_on with velocity 0: a note is
\* emitted.  starts[note]+offset raises TypeError when offset is None.
ParseClose(msg) ==
    /\ pc = "parse"
    /\ Len(msgs) < MaxMsgs
    /\ IsNoteMsg(msg)
    /\ MsgVel(msg) = 0
    /\ msgs' = Append(msgs, msg)
    /\ frame' = Advance(frame, started, msg, fps)
    /\ started' = TRUE
    /\ IF offset = None
         THEN /\ pc' = "TypeError"
              /\ notes' = notes
         ELSE /\ pc' = pc
              /\ notes' = Append(notes,
                     Note(msg.note, vels[msg.note], starts[msg.note] + Val(offset),
                          frame' + Val(offset), NextIndex(notes)))
    /\ UNCHANGED <<fps, offset, starts, vels, schedVars>>

\* The event stream is exhausted: Midi.__init__ returns.
EndOfStream ==
    /\ pc = "parse"
    /\ pc' = "parsed"
    /\ UNCHANGED <<parserVars, notes, schedVars>>

\* A span that forgets the first note.
Length_EndOnly(ns) == ns[Len(ns)].end

\* Midi.length: self.notes[-1].end - self.notes[0].start
Length(ns) == ns[Len(ns)].end - ns[1].start

\* Midi.__init__ as a function of its arguments: the locals before the first
\* message (lines 76-82) ...
ParseStart ==
    [frame |-> 0, started |-> FALSE, starts |-> [p \in Pitches |-> 0],
     vels |-> [p \in Pitches |-> 0], notes |-> <<>>, raised |-> FALSE]

\* ... one iteration of "for msg in midi" (lines 83-96) on the locals s ...
ParseStep(s, msg, rate, off) ==
    LET f == Advance(s.frame, s.started, msg, rate)
    IN  IF s.raised THEN s
        ELSE IF ~IsNoteMsg(msg) THEN [s EXCEPT !.frame = f]
        ELSE IF MsgVel(msg) = 0
          THEN IF off = None
                 THEN [s EXCEPT !.frame = f, !.started = TRUE, !.raised = TRUE]
                 ELSE [s EXCEPT !.frame = f, !.started = TRUE,
                          !.notes = Append(@,
                              Note(msg.note, s.vels[msg.note],
                                   s.starts[msg.note] + Val(off), f + Val(off),
                                   NextIndex(s.notes)))]
          ELSE [s EXCEPT !.frame = f, !.started = TRUE,
                   !.starts[msg.note] = f, !.vels[msg.note] = MsgVel(msg)]

\* ... and the whole loop over the messages ms[1..n].
RECURSIVE ParseLoop(_, _, _, _)
ParseLoop(ms, n, rate, off) ==
    IF n = 0 THEN ParseStart
    ELSE ParseStep(ParseLoop(ms, n - 1, rate, off), ms[n], rate, off)

\* Midi(path, fps, offset).notes for the event stream ms.
ParsedNotes(ms, rate, off) == ParseLoop(ms, Len(ms), rate, off).notes

ParserNext ==
    \/ \E msg \in Others : ParseOther(msg)
    \/ \E msg \in Openers : ParseOpen(msg)
    \/ \E msg \in Closers : ParseClose(msg)
    \/ EndOfStream

SpecParse == ParserInit /\ [][ParserNext]_vars

\* ---------------------------------------------------- proc/mechanical.py

\* The reward of a hammer that has not played yet (line 169), and the value
\* min_reward starts from (line 164).
Sentinel == 1000000
\* The floor below which no hammer is taken (line 178).
Floor == -100000

\* Scheduling.DIST_LINEAR
DIST_LINEAR(x, y) == IF x >= y THEN x - y ELSE y - x

\* Scheduling.DIST_SQUARE
DIST_SQUARE(x, y) == (x - y) * (x - y)

\* self.dist_f(x, y), for the two presets.
Dist(f, x, y) == IF f = "DIST_SQUARE" THEN DIST_SQUARE(x, y) ELSE DIST_LINEAR(x, y)
DistFunctions == {"DIST_LINEAR", "DIST_SQUARE"}

\* Midi.notes_used: the set of the pitches of a note sequence.
NotesUsed(ns) == {ns[p].note : p \in 1..Len(ns)}

\* note.ind: the index of the note's pitch among the pitches of its sequence,
\* in ascending order.
Ind(ns, n) == Cardinality({q \in NotesUsed(ns) : q < n.note})

\* A derived sequence whose notes keep the index of the original sequence.
FromNotes_KeepIndex(ns) == ns

\* Midi.from_notes: a sequence of the same notes, each with its position in
\* the new sequence as index.
FromNotes(ns) ==
    [p \in 1..Len(ns) |->
        Note(ns[p].note, ns[p].velocity, ns[p].start, ns[p].end, p - 1)]

\* The hammers 0..N-1 of a procedure with N animation keys.
Hammers(n) == 0..(n - 1)

\* Rewards with a sentinel of zero.
Rewards_ZeroSentinel(ns, st, f, n) ==
    [i \in DOMAIN st |->
        IF st[i][1] = None
          THEN 0
          ELSE (n.start - st[i][2]) - Dist(f, Ind(ns, n), Val(st[i][1]))]

\* Lines 166-174: the reward of every hammer for a note.
Rewards(ns, st, f, n) ==
    [i \in DOMAIN st |->
        IF st[i][1] = None
          THEN Sentinel
          ELSE (n.start - st[i][2]) - Dist(f, Ind(ns, n), Val(st[i][1]))]

\* np.argmax: the first index holding the greatest value, by a scan in
\* index order.
RECURSIVE ArgmaxFrom(_, _, _, _)
ArgmaxFrom(r, i, n, best) ==
    IF i >= n THEN best
    ELSE ArgmaxFrom(r, i + 1, n, IF r[i] > r[best] THEN i ELSE best)

\* The last index holding the greatest value.
RECURSIVE ArgmaxLastFrom(_, _, _, _)
ArgmaxLastFrom(r, i, n, best) ==
    IF i >= n THEN best
    ELSE ArgmaxLastFrom(r, i + 1, n, IF r[i] >= r[best] THEN i ELSE best)

Argmax_Last(r, n) == ArgmaxLastFrom(r, 1, n, 0)

Argmax(r, n) == ArgmaxFrom(r, 1, n, 0)

\* A floor of zero.
BelowFloor_Zero(best) == best < 0

\* reward < -1e5
BelowFloor(best) == best < Floor

\* The fatal error taken for a "break" out of the loop.
ScheduleFail_Break ==
    /\ pc' = pc
    /\ k' = Len(notes) + 1
    /\ UNCHANGED <<status, buckets, min_reward>>

\* Line 179: raise ValueError; nothing else changes.
ScheduleFail ==
    /\ pc' = "ValueError"
    /\ UNCHANGED <<status, buckets, min_reward, k>>

\* min(min_reward, reward)
Min2(a, b) == IF a <= b THEN a ELSE b

\* An assignment that overwrites the bucket.
BucketAppend_Replace(b, index, n) == [b EXCEPT ![index] = <<n>>]

\* notes[index].append(note)
BucketAppend(b, index, n) == [b EXCEPT ![index] = Append(@, n)]

\* An update that leaves last_play_time as it was.
StatusUpdate_KeepTime(st, index, ind, start) == [st EXCEPT ![index] = <<Some(ind), @[2]>>]

\* An update that sets the state of every hammer.
StatusUpdate_All(st, index, ind, start) == [i \in DOMAIN st |-> <<Some(ind), start>>]

\* status[index][0] = note.ind; status[index][1] = note.start
StatusUpdate(st, index, ind, start) == [st EXCEPT ![index] = <<Some(ind), start>>]

\* self.idle_time * fps / 2, in frames.
IdleTimes == {1}

\* Scheduling.__init__ and animate, lines 156-164: the procedure is given
\* the parsed Midi and its animation keys, and the locals are set up.
ScheduleInit ==
    /\ pc = "parsed"
    /\ \E n \in 1..MaxActuators :
          /\ animkeys' = [i \in Hammers(n) |-> <<>>]
          /\ status' = [i \in Hammers(n) |-> <<None, -1>>]
          /\ buckets' = [i \in Hammers(n) |-> <<>>]
    /\ dist_f' \in DistFunctions
    /\ no_overlap' \in BOOLEAN
    /\ idle_time' \in IdleTimes
    /\ min_reward' = Sentinel
    /\ k' = 1
    /\ pc' = "schedule"
    /\ UNCHANGED <<parserVars, notes, midis, ai, aj>>

\* One iteration of "for note in self.midi", lines 165-184.
ScheduleNote ==
    /\ pc = "schedule"
    /\ k <= Len(notes)
    /\ LET note == notes[k]
           n == Cardinality(DOMAIN status)
           reward == Rewards(notes, status, dist_f, note)
           index == Argmax(reward, n)
           best == reward[index]
       IN  IF BelowFloor(best)
             THEN ScheduleFail
             ELSE /\ pc' = pc
                  /\ min_reward' = Min2(min_reward, best)
                  /\ buckets' = BucketAppend(buckets, index, note)
                  /\ status' = StatusUpdate(status, index, Ind(notes, note), note.start)
                  /\ k' = k + 1
    /\ UNCHANGED <<parserVars, notes, animkeys, dist_f, no_overlap, idle_time,
                   midis, ai, aj>>

\* Lines 186-189: the loop is over; one Midi per hammer is built.
MakeMidis ==
    /\ pc = "schedule"
    /\ k > Len(notes)
    /\ midis' = [i \in DOMAIN buckets |-> FromNotes(buckets[i])]
    /\ ai' = 0
    /\ aj' = 1
    /\ pc' = "animate"
    /\ UNCHANGED <<parserVars, notes, animkeys, dist_f, no_overlap, idle_time,
                   status, buckets, min_reward, k>>

\* note.prev_start and note.next_start: the start of the neighbour in the
\* note's own sequence, None when there is no neighbour.
PrevStart(mid, j) == IF j = 1 THEN None ELSE Some(mid[j - 1].start)
NextStart(mid, j) == IF j = Len(mid) THEN None ELSE Some(mid[j + 1].start)

\* Frames without the threshold: both idle frames for every note.
Frames_NoThreshold(mid, j, idle) ==
    <<mid[j].start, mid[j].start - idle, mid[j].start + idle>>

\* Lines 194-200: the frames to key for note j of a hammer's Midi.  The
\* threshold idle_time * 2.5 is compared after doubling both sides.
Frames(mid, j, idle) ==
    LET start == mid[j].start
        prev == PrevStart(mid, j)
        next == NextStart(mid, j)
        before == IF prev = None \/ 2 * (start - Val(prev)) > 5 * idle
                    THEN <<start - idle>> ELSE <<>>
        after == IF next = None \/ 2 * (Val(next) - start) > 5 * idle
                    THEN <<start + idle>> ELSE <<>>
    IN  <<start>> \o before \o after

\* Line 157 binds notes_used to the method Midi.notes_used without calling
\* it; line 203 asks it for the attribute "index", which a method does not
\* have: AttributeError, here None.
NotesUsedIndex(ns, pitch) == None

\* Lines 206-207: the keyframes move<ind> at every frame.
Keyframes(frames, ind) == [f \in 1..Len(frames) |-> <<frames[f], ind>>]

\* One iteration of the inner loop "for note in mid", lines 191-207.
AnimateNote ==
    /\ pc = "animate"
    /\ ai \in DOMAIN midis
    /\ aj <= Len(midis[ai])
    /\ LET frames == Frames(midis[ai], aj, idle_time)
           ind == NotesUsedIndex(notes, midis[ai][aj].note)
       IN  IF ind = None
             THEN /\ pc' = "AttributeError"
                  /\ UNCHANGED <<animkeys, aj>>
             ELSE /\ pc' = pc
                  /\ animkeys' = [animkeys EXCEPT
                                    ![ai] = @ \o Keyframes(frames, Val(ind))]
                  /\ aj' = aj + 1
    /\ UNCHANGED <<parserVars, notes, dist_f, no_overlap, idle_time, status,
                   buckets, min_reward, k, midis, ai>>

\* The inner loop is over for hammer i: on to the next hammer.
AnimateNextHammer ==
    /\ pc = "animate"
    /\ ai \in DOMAIN midis
    /\ aj > Len(midis[ai])
    /\ ai' = ai + 1
    /\ aj' = 1
    /\ UNCHANGED <<pc, parserVars, notes, animkeys, dist_f, no_overlap, idle_time,
                   status, buckets, min_reward, k, midis>>

\* Line 209: return midis.
AnimateReturn ==
    /\ pc = "animate"
    /\ ai \notin DOMAIN midis
    /\ pc' = "done"
    /\ UNCHANGED <<parserVars, notes, schedVars>>

SchedNext ==
    \/ ScheduleInit
    \/ ScheduleNote
    \/ MakeMidis
    \/ AnimateNote
    \/ AnimateNextHammer
    \/ AnimateReturn

\* The note sequences handed directly to a Scheduling procedure.
SchedPitches == {60, 62, 64}
SchedStarts == {0, 1, 1000001}
SchedInputs ==
    UNION {
        { [p \in 1..n |-> Note(f[p][1], 100, f[p][2], f[p][2] + 1, p - 1)] :
            f \in [1..n -> SchedPitches \X SchedStarts] } :
        n \in 0..MaxNotes }

\* A Midi object exists; no parser is running.
SchedInit ==
    /\ pc = "parsed"
    /\ msgs = <<>>
    /\ fps \in FpsValues
    /\ offset = Some(0)
    /\ frame = 0
    /\ started = FALSE
    /\ starts = [p \in Pitches |-> 0]
    /\ vels = [p \in Pitches |-> 0]
    /\ notes \in SchedInputs
    /\ SchedIdle

SpecSched == SchedInit /\ [][SchedNext]_vars

\* The whole pipeline: a MIDI stream is parsed and the Midi is scheduled.
Init == ParserInit
Next == ParserNext \/ SchedNext
Spec == Init /\ [][Next]_vars

\* ------------------------------------------------------------------ claims

\* What a note is, apart from its position in a sequence.
Core(n) == <<n.note, n.velocity, n.start, n.end>>

\* How many notes of a sequence are the note c.
Count(ns, c) == Cardinality({p \in 1..Len(ns) : Core(ns[p]) = c})

\* How many notes of the sequences fs[i], i in S, are the note c.
RECURSIVE CountAll(_, _, _)
CountAll(fs, S, c) ==
    IF S = {} THEN 0
    ELSE LET i == CHOOSE x \in S : TRUE
         IN  Count(fs[i], c) + CountAll(fs, S \ {i}, c)

\* The scheduling loop is over and line 189 has built the per-hammer Midis.
Scheduled == pc \in {"animate", "AttributeError", "done"}

\* A scheduling run is under way or over.
InScheduler == pc \in {"schedule", "ValueError"} \/ Scheduled

\* start-ascending
Ascending(ns) == \A p \in 1..(Len(ns) - 1) : ns[p].start <= ns[p + 1].start

\* A well-formed stream: every closing event closes an open note of its pitch
\* and no note_on opens a pitch that is open.
RECURSIVE WellFormedFrom(_, _, _)
WellFormedFrom(ms, i, open) ==
    IF i > Len(ms) THEN TRUE
    ELSE IF ~IsNoteMsg(ms[i]) THEN WellFormedFrom(ms, i + 1, open)
    ELSE IF MsgVel(ms[i]) = 0
      THEN ms[i].note \in open /\ WellFormedFrom(ms, i + 1, open \ {ms[i].note})
      ELSE ms[i].note \notin open /\ WellFormedFrom(ms, i + 1, open \cup {ms[i].note})

WellFormed(ms) == WellFormedFrom(ms, 1, {})

\* C1 (conservation): once the scheduling loop is over there is one sequence
\* per animation key, every input note lies in exactly one bucket, and the
\* notes of the per-hammer sequences are, as a multiset, the input notes.
C1_Conservation ==
    Scheduled =>
        /\ DOMAIN midis = DOMAIN animkeys
        /\ \A p \in 1..Len(notes) :
              Cardinality({ij \in (DOMAIN buckets) \X (1..Len(notes)) :
                              /\ ij[2] <= Len(buckets[ij[1]])
                              /\ buckets[ij[1]][ij[2]] = notes[p]}) = 1
        /\ \A c \in {Core(notes[p]) : p \in 1..Len(notes)}
                    \cup UNION {{Core(midis[i][j]) : j \in 1..Len(midis[i])} :
                                i \in DOMAIN midis} :
              Count(notes, c) = CountAll(midis, DOMAIN midis, c)

\* C1 witness: a run is scheduled whose input holds the same note twice and
\* which gave notes to two hammers.
C1_Reached ==
    /\ Scheduled
    /\ \E p, q \in 1..Len(notes) : p < q /\ Core(notes[p]) = Core(notes[q])
    /\ \E i, j \in DOMAIN midis : i # j /\ midis[i] # <<>> /\ midis[j] # <<>>

\* C2 (ordering invariant of the parser), as claimed: the notes parsed from a
\* well-formed stream are start-ascending.
C2_ParsedStartAscending == WellFormed(msgs) => Ascending(notes)

\* The case of C3: one hammer, two notes of the same start whose pitch
\* indices are a nonzero distance apart.
C3_Case ==
    /\ InScheduler
    /\ Cardinality(DOMAIN status) = 1
    /\ Len(notes) = 2
    /\ notes[1].start = notes[2].start
    /\ Dist(dist_f, Ind(notes, notes[1]), Ind(notes, notes[2])) # 0

\* C3 (fatal floor), as claimed: in that case the second note is not
\* assigned, the run ends with the fatal error at it.
C3_FatalFloor == C3_Case => (k <= 2 /\ pc \in {"schedule", "ValueError"})

\* C3, amended: in that case there is no fatal error; the second note is
\* assigned to the hammer, with a reward of minus the distance.
C3_NoFatalAboveFloor ==
    C3_Case =>
        /\ pc # "ValueError"
        /\ k > 2 =>
              /\ buckets[0] = notes
              /\ min_reward = 0 - Dist(dist_f, Ind(notes, notes[1]), Ind(notes, notes[2]))
              /\ min_reward >= Floor

\* C3 witness: the second note of such a run has been handled.
C3_Reached == C3_Case /\ k = 3

\* The case of C4: as many hammers as notes.
C4_Case == InScheduler /\ Len(notes) >= 1 /\ Cardinality(DOMAIN status) = Len(notes)

\* C4 (idleness reward monotonicity), as claimed: with as many hammers as
\* notes no hammer is ever given a second note, for all inputs.
C4_DistinctActuators == C4_Case => \A i \in DOMAIN buckets : Len(buckets[i]) <= 1

\* No reward of a hammer that has played can reach the sentinel: for notes
\* p before q, (start of q - start of p) - distance is below it.
C4_RewardsBelowSentinel ==
    \A p, q \in 1..Len(notes) :
        p < q =>
            (notes[q].start - notes[p].start)
              - Dist(dist_f, Ind(notes, notes[q]), Ind(notes, notes[p])) < Sentinel

\* C4, amended: with as many hammers as notes, and no reward of a used hammer
\* reaching the sentinel, no hammer is given a second note, the run does not
\* fail, and at its end every hammer holds exactly one note.
C4_DistinctBelowSentinel ==
    (C4_Case /\ C4_RewardsBelowSentinel) =>
        /\ \A i \in DOMAIN buckets : Len(buckets[i]) <= 1
        /\ pc # "ValueError"
        /\ Scheduled => \A i \in DOMAIN buckets : Len(buckets[i]) = 1

\* C4 witness: three notes on three hammers, one each, where a hammer that
\* had played had a reward above zero for a later note.
C4_Reached ==
    /\ C4_Case /\ C4_RewardsBelowSentinel /\ Scheduled
    /\ Len(notes) >= 3
    /\ \E p, q \in 1..Len(notes) :
          /\ p < q
          /\ (notes[q].start - notes[p].start)
               - Dist(dist_f, Ind(notes, notes[q]), Ind(notes, notes[p])) > 0

\* The reward the claim gives hammer i for the note at position p, from the
\* status of the hammers.
C5_Reward(i, p) ==
    IF status[i][1] = None
      THEN Sentinel
      ELSE (notes[p].start - status[i][2])
             - Dist(dist_f, Ind(notes, notes[p]), Val(status[i][1]))

\* C5 (selection and tie-break): every step that assigns a note gives it to
\* one hammer, whose reward is the greatest and greater than the reward of
\* every hammer of lower index.
C5_LowestMaximalChosen ==
    [][(pc = "schedule" /\ k' = k + 1) =>
          \E i \in DOMAIN status :
              /\ buckets'[i] = Append(buckets[i], notes[k])
              /\ \A j \in DOMAIN status \ {i} : buckets'[j] = buckets[j]
              /\ \A j \in DOMAIN status : C5_Reward(j, k) <= C5_Reward(i, k)
              /\ \A j \in DOMAIN status : j < i => C5_Reward(j, k) < C5_Reward(i, k)
      ]_vars

\* C5 witness: the note just assigned went to hammer i, which had played
\* before, while hammer j > i, which had played too, had the same reward.
C5_TieBroken ==
    /\ pc = "schedule"
    /\ k >= 2
    /\ \E i, j \in DOMAIN status :
          /\ i < j
          /\ Len(buckets[i]) >= 2
          /\ buckets[i][Len(buckets[i])] = notes[k - 1]
          /\ status[j][1] # None
          /\ LET note == notes[k - 1]
                 prev == buckets[i][Len(buckets[i]) - 1]
             IN  (note.start - prev.start)
                   - Dist(dist_f, Ind(notes, note), Ind(notes, prev))
                 = (note.start - status[j][2])
                   - Dist(dist_f, Ind(notes, note), Val(status[j][1]))

\* C6 (no-overlap policy), as claimed: with no_overlap set, no assignment
\* reverses the order of the pitch indices of two hammers that hold one
\* (stated for start-ascending input, where it already fails).
C6_NoCrossing ==
    [][(pc = "schedule" /\ no_overlap /\ Ascending(notes)) =>
          \A i, j \in DOMAIN status :
              (/\ status[i][1] # None
               /\ status[j][1] # None
               /\ Val(status[i][1]) < Val(status[j][1]))
              => Val(status'[i][1]) <= Val(status'[j][1])
      ]_vars

\* The event stream of C7.
C7_Events ==
    << [type |-> "note_on", note |-> 60, velocity |-> 100, time |-> 0],
       [type |-> "note_off", note |-> 60, velocity |-> 64, time |-> 4],
       [type |-> "note_on", note |-> 62, velocity |-> 80, time |-> 1],
       [type |-> "note_off", note |-> 62, velocity |-> 64, time |-> 4] >>

C7_Case == msgs = C7_Events /\ fps = 24 /\ offset = Some(0)

\* C7 (concrete parse scenario), as claimed: the stream parses to the notes
\* {60, 0, 96} and {62, 24, 120}.
C7_Scenario ==
    C7_Case =>
        /\ Len(notes) = 2
        /\ <<notes[1].note, notes[1].start, notes[1].end>> = <<60, 0, 96>>
        /\ <<notes[2].note, notes[2].start, notes[2].end>> = <<62, 24, 120>>

\* C7, amended: the stream parses to the notes {60, 0, 96} and
\* {62, 120, 216}, with velocities 100 and 80.
C7_ScenarioAccumulated ==
    C7_Case => notes = << Note(60, 100, 0, 96, 0), Note(62, 80, 120, 216, 1) >>

\* C7 witness: the stream has been parsed.
C7_Reached == C7_Case /\ pc = "parsed"

\* How many notes have been assigned.
RECURSIVE Assigned(_, _)
Assigned(b, S) ==
    IF S = {} THEN 0
    ELSE LET i == CHOOSE x \in S : TRUE IN Len(b[i]) + Assigned(b, S \ {i})

\* Some per-hammer Midi has been built or some keyframe inserted.
C8_Output == midis # <<>> \/ \E i \in DOMAIN animkeys : animkeys[i] # <<>>

\* C8 (no partial results on failure): at the fatal error no keyframe has
\* been inserted and no per-hammer sequence exists, and whenever a
\* per-hammer sequence exists or a keyframe has been inserted every input
\* note has been assigned.
C8_NoPartialResults ==
    /\ pc = "ValueError" => ~C8_Output
    /\ C8_Output => Assigned(buckets, DOMAIN buckets) = Len(notes)

\* C8 witness: the fatal error, raised after a note had been assigned.
C8_Reached == pc = "ValueError" /\ Assigned(buckets, DOMAIN buckets) >= 1

\* C9 (per-actuator ordering), as claimed: every per-hammer sequence built
\* from the notes parsed from a well-formed stream is start-ascending.
C9_BucketsStartAscending ==
    (Scheduled /\ WellFormed(msgs)) => \A i \in DOMAIN midis : Ascending(midis[i])

\* C10 (navigation in a parsed sequence): the note at position p (from 0)
\* has index p, its next is the note at p+1 or None at the end, its prev the
\* note at p-1 or None at the start, and next.prev and prev.next lead back.
C10_Navigation ==
    \A p \in 1..Len(notes) :
        LET n == notes[p]
            nx == NoteNext(notes, n)
            pv == NotePrev(notes, n)
        IN  /\ n.index = p - 1
            /\ nx = (IF p = Len(notes) THEN None ELSE Some(notes[p + 1]))
            /\ pv = (IF p = 1 THEN None ELSE Some(notes[p - 1]))
            /\ nx # None => NotePrev(notes, Val(nx)) = Some(n)
            /\ pv # None => NoteNext(notes, Val(pv)) = Some(n)

\* C10 witness: a parsed sequence of three notes or more.
C10_Reached == pc = "parsed" /\ Len(notes) >= 3

\* C11 (navigation in derived sequences): in every per-hammer sequence the
\* scheduler returns, the note at position p (from 0) has index p, its next
\* is the note at p+1 of the same hammer or None at the end, and its prev the
\* note at p-1 of the same hammer or None at the start.
C11_DerivedNavigation ==
    Scheduled =>
        \A i \in DOMAIN midis : \A p \in 1..Len(midis[i]) :
            LET mid == midis[i]
                n == mid[p]
            IN  /\ n.index = p - 1
                /\ NoteNext(mid, n) =
                       (IF p = Len(mid) THEN None ELSE Some(mid[p + 1]))
                /\ NotePrev(mid, n) =
                       (IF p = 1 THEN None ELSE Some(mid[p - 1]))

\* C11 witness: a hammer was given the first and the third note of the
\* original sequence, another hammer the second.
C11_Reached ==
    /\ Scheduled
    /\ Len(notes) = 3
    /\ \E i, j \in DOMAIN midis :
          /\ i # j
          /\ Len(midis[i]) = 2
          /\ Core(midis[i][1]) = Core(notes[1])
          /\ Core(midis[i][2]) = Core(notes[3])
          /\ Core(notes[1]) # Core(notes[2])
          /\ Core(notes[3]) # Core(notes[2])
          /\ Len(midis[j]) = 1

\* An offset that was passed to Midi.__init__.
Numeric == Offsets \ {None}

\* C12 (span ignores offset): the span of a parsed, non-empty sequence is the
\* last note's end minus the first note's start, and parsing the same event
\* stream at the same fps with any other offset gives a sequence of the same
\* span.
C12_SpanIgnoresOffset ==
    (pc = "parsed" /\ offset # None /\ notes # <<>>) =>
        /\ Length(notes) = notes[Len(notes)].end - notes[1].start
        /\ \A o \in Numeric \ {offset} :
              Length(ParsedNotes(msgs, fps, o)) = Length(notes)

\* C12 witness: a well-formed stream parsed with a nonzero offset into two
\* notes or more.
C12_Reached ==
    /\ pc = "parsed"
    /\ WellFormed(msgs)
    /\ offset # None /\ Val(offset) # 0
    /\ Len(notes) >= 2
    /\ Length(notes) > 0

\* C13 (default offset), as claimed: parsing without an offset argument
\* (offset is then the declared default) a well-formed stream raises nothing
\* and yields exactly the notes that parsing it with offset 0 yields.
C13_DefaultOffset ==
    (offset = None /\ WellFormed(msgs)) =>
        /\ pc # "TypeError"
        /\ notes = ParsedNotes(msgs, fps, Some(0))

\* C14 (stable slot numbering), as claimed: the animation loop finds a slot
\* index for the pitch of every note it animates; the index is looked up by
\* pitch in the original sequence, so that hammers playing the same pitch use
\* the same slot, and distinct pitches of the original sequence have distinct
\* slots.
C14_StableSlots ==
    Scheduled =>
        /\ pc # "AttributeError"
        /\ \A p, q \in NotesUsed(notes) :
              /\ NotesUsedIndex(notes, p) # None
              /\ p # q => NotesUsedIndex(notes, p) # NotesUsedIndex(notes, q)

\* Hammer i is Busy in the scheduler state st (its last pitch index is set).
Busy(st, i) == st[i][1] # None

\* Every hammer without a note is Idle, with the initial state; every other
\* hammer is Busy with the pitch index and start of the last note of its
\* bucket.
C15_StateOfBucket ==
    InScheduler =>
        \A i \in DOMAIN status :
            IF buckets[i] = <<>>
              THEN status[i] = <<None, -1>>
              ELSE LET last == buckets[i][Len(buckets[i])]
                   IN  status[i] = <<Some(Ind(notes, last)), last.start>>

\* A Busy hammer stays Busy, and an Idle hammer becomes Busy exactly in the
\* step that appends a note to its bucket.
C15_Transitions ==
    \A i \in DOMAIN status :
        /\ Busy(status, i) => Busy(status', i)
        /\ ~Busy(status, i) =>
              (Busy(status', i) <=> Len(buckets'[i]) = Len(buckets[i]) + 1)

\* C15 (scheduler state machine): every hammer starts Idle; it becomes Busy
\* exactly when a note is assigned to it; once Busy it is Busy in every later
\* state of the run; and the pitch index and start of a Busy hammer are those
\* of the note most recently appended to its bucket.
C15_StateMachine == []C15_StateOfBucket /\ [][C15_Transitions]_vars

\* C15 witness: a hammer that is Busy after its second note, next to a hammer
\* that is still Idle.
C15_Reached ==
    /\ pc = "schedule"
    /\ \E i, j \in DOMAIN status :
          /\ Len(buckets[i]) = 2
          /\ Busy(status, i)
          /\ Len(buckets[j]) = 0
          /\ ~Busy(status, j)

\* The scheduling loop takes a step on a note.
C16_NoteStep == pc = "schedule" /\ k <= Len(notes) /\ (k' # k \/ pc' # pc)

\* C16 (frame condition): the iteration that assigns a note appends it to
\* the bucket of exactly one hammer and sets that hammer's state, and leaves
\* the state and bucket of every other hammer as they were; the iteration on
\* which scheduling fails changes no hammer's state or bucket.
C16_Frame ==
    [][C16_NoteStep =>
          IF pc' = "ValueError"
            THEN status' = status /\ buckets' = buckets
            ELSE \E i \in DOMAIN status :
                    /\ buckets'[i] = Append(buckets[i], notes[k])
                    /\ status'[i] = <<Some(Ind(notes, notes[k])), notes[k].start>>
                    /\ \A j \in DOMAIN status \ {i} :
                          status'[j] = status[j] /\ buckets'[j] = buckets[j]]_vars

\* C16 witness: with three hammers, two of them Busy, the third note has
\* been assigned.
C16_Reached ==
    /\ pc = "schedule"
    /\ k = 4
    /\ Cardinality(DOMAIN status) = 3
    /\ Cardinality({i \in DOMAIN status : Busy(status, i)}) = 2

\* A closing event: a note_off, or a note_on with velocity 0.
IsClosing(msg) ==
    msg.type = "note_off" \/ (msg.type = "note_on" /\ msg.velocity = 0)

\* An opening event: a note_on with velocity > 0.
IsOpening(msg) == msg.type = "note_on" /\ msg.velocity > 0

\* The positions of the note events of a stream, and the first of them
\* (0 when there is none).
NoteEvents(ms) == {i \in 1..Len(ms) : ms[i].type \in {"note_on", "note_off"}}
FirstNoteEvent(ms) ==
    IF NoteEvents(ms) = {} THEN 0
    ELSE CHOOSE i \in NoteEvents(ms) : \A j \in NoteEvents(ms) : i <= j

\* The sum of the time deltas of the events ms[lo..hi].
RECURSIVE DeltaSum(_, _, _)
DeltaSum(ms, lo, hi) ==
    IF lo > hi THEN 0 ELSE ms[hi].time + DeltaSum(ms, lo, hi - 1)

\* The frames elapsed at event i of a stream: the deltas of the events after
\* the first note event, up to and including event i, times the rate.
FramesAt(ms, i, rate) ==
    IF FirstNoteEvent(ms) = 0 THEN 0
    ELSE DeltaSum(ms, FirstNoteEvent(ms) + 1, i) * rate

\* The first emitted note of the pitch that the first note event opened.
FirstOpened(ms, ns) ==
    LET pitch == ms[FirstNoteEvent(ms)].note
        S == {p \in 1..Len(ns) : ns[p].note = pitch}
    IN  IF S = {} THEN 0 ELSE CHOOSE p \in S : \A q \in S : p <= q

\* C17 (leading silence is stripped): for a well-formed stream, whatever the
\* time deltas of the events up to and including the first note event, the
\* accumulator is the sum of the deltas of the later events (note events or
\* not) times fps, and the note opened by the first note_on is emitted with
\* start equal to the offset.
C17_LeadingSilence ==
    (WellFormed(msgs) /\ offset # None) =>
        /\ frame = FramesAt(msgs, Len(msgs), fps)
        /\ (FirstNoteEvent(msgs) # 0 /\ FirstOpened(msgs, notes) # 0) =>
              notes[FirstOpened(msgs, notes)].start = Val(offset)

\* C17 witness: a non-note event and then the first note_on, both with a
\* nonzero delta, and the opened note emitted under a nonzero offset.
C17_Reached ==
    /\ pc = "parsed"
    /\ WellFormed(msgs)
    /\ offset # None /\ Val(offset) # 0
    /\ Len(msgs) >= 3
    /\ msgs[1].type = "control_change" /\ msgs[1].time > 0
    /\ IsOpening(msgs[2]) /\ msgs[2].time > 0
    /\ Len(notes) >= 1
    /\ notes[1].note = msgs[2].note
    /\ frame > 0

\* Event i of a stream in its other closing form: a note_off becomes a
\* note_on with velocity 0 and a note_on with velocity 0 a note_off, with the
\* same pitch and delta.
OtherForm(msg) ==
    IF msg.type = "note_off"
      THEN [msg EXCEPT !.type = "note_on", !.velocity = 0]
      ELSE [msg EXCEPT !.type = "note_off", !.velocity = 64]
Swapped(ms, i) == [ms EXCEPT ![i] = OtherForm(ms[i])]

\* The position of the q-th closing event of a stream.
Closings(ms) == {i \in 1..Len(ms) : IsClosing(ms[i])}
ClosingAt(ms, q) ==
    CHOOSE i \in Closings(ms) : Cardinality({j \in Closings(ms) : j <= i}) = q

\* The position of the last note_on with velocity > 0 of the pitch of event
\* i before event i.
OpeningOf(ms, i) ==
    LET S == {j \in 1..(i - 1) : IsOpening(ms[j]) /\ ms[j].note = ms[i].note}
    IN  CHOOSE j \in S : \A h \in S : h <= j

\* C18 (closing-event equivalence): replacing any closing event of a parsed
\* stream by its other form (note_off by note_on with velocity 0, or the
\* reverse) yields the same note sequence; and in a well-formed stream the
\* q-th emitted note has the pitch of the q-th closing event, the velocity
\* and start recorded at the most recent note_on with velocity > 0 of that
\* pitch, and the accumulator value at the closing event as its end.
C18_ClosingEquivalence ==
    (pc = "parsed" /\ offset # None) =>
        /\ \A i \in Closings(msgs) :
              ParsedNotes(Swapped(msgs, i), fps, offset) = notes
        /\ Len(notes) = Cardinality(Closings(msgs))
        /\ WellFormed(msgs) =>
              \A q \in 1..Len(notes) :
                  LET i == ClosingAt(msgs, q)
                      j == OpeningOf(msgs, i)
                  IN  Core(notes[q]) =
                          <<msgs[i].note, msgs[j].velocity,
                            FramesAt(msgs, j, fps) + Val(offset),
                            FramesAt(msgs, i, fps) + Val(offset)>>

\* C18 witness: a well-formed stream in which one note was closed by a
\* note_off and another by a note_on with velocity 0.
C18_Reached ==
    /\ pc = "parsed"
    /\ WellFormed(msgs)
    /\ offset # None
    /\ Len(notes) = 2
    /\ \E i, j \in Closings(msgs) :
          msgs[i].type = "note_off" /\ msgs[j].type = "note_on"

\* C19 (note duration is non-negative): every note parsed from a well-formed
\* stream has end >= start, whatever the offset.
C19_NonNegativeDuration ==
    WellFormed(msgs) => \A p \in 1..Len(notes) : notes[p].end >= notes[p].start

\* C19 witness: a well-formed stream parsed under a nonzero offset into two
\* notes of positive duration.
C19_Reached ==
    /\ pc = "parsed"
    /\ WellFormed(msgs)
    /\ offset # None /\ Val(offset) # 0
    /\ Len(notes) = 2
    /\ \A p \in 1..2 : notes[p].end > notes[p].start

\* The frames lines 194-200 compute for note j of hammer i, as a set, and
\* whether the arrival frame (start - idle_time) of that note is among them.
FrameSet(i, j) ==
    LET frames == Frames(midis[i], j, idle_time)
    IN  {frames[f] : f \in 1..Len(frames)}
ArrivalKeyed(i, j) == (midis[i][j].start - idle_time) \in FrameSet(i, j)

\* C20 (the move keyframes of one hammer never interleave): with
\* idle_time > 0 and the hammer's notes start-ascending, for consecutive
\* notes a then b of a hammer the arrival frame of b is keyed only when
\* b.start - a.start > 2.5 * idle_time, it then lies strictly after every
\* frame keyed for a, and in every case no frame keyed for a lies after a
\* frame keyed for b.
C20_NoInterleaving ==
    (Scheduled /\ idle_time > 0) =>
        \A i \in DOMAIN midis :
            Ascending(midis[i]) =>
                \A j \in 1..(Len(midis[i]) - 1) :
                    LET a == midis[i][j]
                        b == midis[i][j + 1]
                    IN  /\ ArrivalKeyed(i, j + 1) =>
                              /\ 2 * (b.start - a.start) > 5 * idle_time
                              /\ \A f \in FrameSet(i, j) : f < b.start - idle_time
                        /\ \A f \in FrameSet(i, j) : \A g \in FrameSet(i, j + 1) :
                              f <= g

\* C20 witness: a hammer with three start-ascending notes, the second too
\* close to the first for an arrival frame, the third far enough.
C20_Reached ==
    /\ Scheduled
    /\ idle_time > 0
    /\ \E i \in DOMAIN midis :
          /\ Len(midis[i]) = 3
          /\ Ascending(midis[i])
          /\ midis[i][2].start > midis[i][1].start
          /\ ~ArrivalKeyed(i, 2)
          /\ ArrivalKeyed(i, 3)

====
